---- MODULE Spec2Model ----
(***************************************************************************)
(* Model of the management command load_call_csv (class Command): a CSV    *)
(* of calls for service is read into a dataframe, the lookup tables are    *)
(* filled with get_or_create and their IDs joined back onto the dataframe, *)
(* and the Call table is bulk-inserted in batches with one duplicate-key   *)
(* retry.  The database is the state; one action per step of handle().     *)
(***************************************************************************)
EXTENDS Integers, Sequences, FiniteSets, TLC

VARIABLES
    pc,          \* position inside handle(): the step that runs next
    options,     \* the command line: reset, agency, update
    csv,         \* the file on disk: [columns, rows]
    df,          \* self.df: [columns, rows]
    agency,      \* self.agency (an agency_id, None before it is looked up)
    batch_size,  \* self.batch_size
    start,       \* the local `start` of create_calls
    Agency, District, Beat, Priority, Nature, CloseCode, CallSource, City,
    Department, CallUnit, Call,      \* the tables of core.models
    run,         \* which invocation of the command this is (1 or 2)
    db0,         \* the tables as they were when this invocation began
    log          \* one record per batch of create_calls, in order

tables == <<Agency, District, Beat, Priority, Nature, CloseCode, CallSource,
            City, Department, CallUnit, Call>>
vars == <<pc, options, csv, df, agency, batch_size, start, Agency, District,
          Beat, Priority, Nature, CloseCode, CallSource, City, Department,
          CallUnit, Call, run, db0, log>>

-----------------------------------------------------------------------------
(* Bounds of the model *)

\* most rows of a CSV whose Internal IDs and times vary
MaxRows == 3
\* most rows of a CSV whose lookup columns vary
MaxLookupRows == 2
\* Internal IDs are 1..MaxId
MaxId == 2
\* self.batch_size is drawn from 1..MaxBatch (the code fixes it at 2000)
MaxBatch == 2

-----------------------------------------------------------------------------
(* Values *)

\* Python None / SQL NULL in an integer column; primary keys start at 1
None == 0
\* a missing number or time of the dataframe (float nan, pd.NaT)
NaN == 0
\* a missing text of the dataframe (read_csv turns an empty cell into nan)
NaNText == "nan"
\* Python None where a text is expected
NoneText == "None"
\* a missing Zip of the dataframe, and the None that safe_zip makes of it
NaNZip == <<-1>>
\* the texts a lookup column can hold, in sorted() order
Names == <<"A", "B">>
Ord(s) == CHOOSE i \in 1..Len(Names) : Names[i] = s
NameSet == {Names[i] : i \in 1..Len(Names)}

LookupColumns == {"District", "Beat", "Priority", "Nature Code", "Nature Text",
                  "Close Code", "Close Text", "Source Code", "Source Text",
                  "City", "Department", "Primary Unit"}
OptionalColumns == {"Street Address", "Zip"}

isnan(x) == x = NaN
isnanText(x) == x = NaNText

safe_int(x) == IF isnan(x) THEN None ELSE x
safe_float(x) == IF isnan(x) THEN None ELSE x
safe_datetime(x) == IF x = NaN THEN None ELSE x

\* zip.strip()[:5] on a sequence of characters, 0 being a blank
RECURSIVE lstrip(_)
lstrip(s) == IF s # <<>> /\ Head(s) = 0 THEN lstrip(Tail(s)) ELSE s
RECURSIVE rstrip(_)
rstrip(s) ==
    IF s # <<>> /\ s[Len(s)] = 0 THEN rstrip(SubSeq(s, 1, Len(s) - 1)) ELSE s
safe_zip(zip) ==
    IF zip = NaNZip THEN NaNZip
    ELSE LET t == rstrip(lstrip(zip)) IN
         IF Len(t) > 5 THEN SubSeq(t, 1, 5) ELSE t

\* sorted(x for x in coll if not isnan(x)) over texts
RECURSIVE sorted(_)
sorted(S) ==
    IF S = {} THEN <<>>
    ELSE LET m == CHOOSE x \in S : \A y \in S : Ord(x) <= Ord(y)
         IN <<m>> \o sorted(S \ {m})
safe_sorted(coll) == sorted({x \in coll : ~isnanText(x)})

\* the values of one column of the dataframe
Column(d, col) == {d.rows[i][col] : i \in 1..Len(d.rows)}

-----------------------------------------------------------------------------
(* The ORM *)

MaxOf(S) == IF S = {} THEN 0 ELSE CHOOSE m \in S : \A x \in S : x <= m

\* get_or_create that never looks for the row and always creates one
get_or_create_always_creates(tbl, pk, kwargs, defaults) ==
    LET new == (pk :> MaxOf({r[pk] : r \in tbl}) + 1) @@ kwargs @@ defaults
    IN [obj |-> new, tbl |-> tbl \cup {new}, raised |-> FALSE]

\* Model.objects.get_or_create(**kwargs, defaults=defaults): the row matching
\* kwargs, created (with the next primary key) when there is none; more than
\* one match raises MultipleObjectsReturned
get_or_create(tbl, pk, kwargs, defaults) ==
    LET found == {r \in tbl : \A f \in DOMAIN kwargs : r[f] = kwargs[f]}
        new == (pk :> MaxOf({r[pk] : r \in tbl}) + 1) @@ kwargs @@ defaults
    IN IF found = {} THEN [obj |-> new, tbl |-> tbl \cup {new}, raised |-> FALSE]
       ELSE IF Cardinality(found) = 1
            THEN [obj |-> CHOOSE r \in found : TRUE, tbl |-> tbl, raised |-> FALSE]
            ELSE [obj |-> CHOOSE r \in found : TRUE, tbl |-> tbl, raised |-> TRUE]

\* [Model.objects.get_or_create(...)[0] for ... in kwlist]: the list
\* comprehension, which stops at the first call that raises
RECURSIVE get_or_create_all(_, _, _, _, _)
get_or_create_all(tbl, pk, kwlist, deflist, objs) ==
    IF kwlist = <<>> THEN [objs |-> objs, tbl |-> tbl, raised |-> FALSE]
    ELSE LET r == get_or_create(tbl, pk, Head(kwlist), Head(deflist))
         IN IF r.raised THEN [objs |-> objs, tbl |-> r.tbl, raised |-> TRUE]
            ELSE get_or_create_all(r.tbl, pk, Tail(kwlist), Tail(deflist),
                                   Append(objs, r.obj))

\* a map that answers every text with the first object
map_get_first(objs, key, pk, x) ==
    IF objs = <<>> THEN None ELSE objs[1][pk]

\* {o.key: o.pk for o in objs}.get(x): a later object replaces an earlier one
\* with the same key; None when there is none
map_get(objs, key, pk, x) ==
    LET hits == {i \in 1..Len(objs) : objs[i][key] = x}
    IN IF hits = {} THEN None ELSE objs[MaxOf(hits)][pk]

\* df[idcol] = df[col].apply(lambda x: map.get(x), convert_dtype=False)
with_column(d, idcol, col, objs, key, pk) ==
    [columns |-> d.columns \cup {idcol},
     rows |-> [i \in 1..Len(d.rows) |->
                 [d.rows[i] EXCEPT ![idcol] = map_get(objs, key, pk, d.rows[i][col])]]]

-----------------------------------------------------------------------------
(* The lookup tables: create_districts .. create_primary_units *)

NoDefaults == [f \in {} |-> None]

\* the body shared by create_beats, create_cities, create_priorities,
\* create_departments and (with agency among the kwargs) create_districts:
\* get_or_create one row per sorted distinct name, then join the IDs back
DescrLookup(tbl, pk, col, idcol, extra) ==
    LET names == safe_sorted(Column(df, col))
        kwlist == [i \in 1..Len(names) |-> extra @@ [descr |-> names[i]]]
        deflist == [i \in 1..Len(names) |-> NoDefaults]
        r == get_or_create_all(tbl, pk, kwlist, deflist, <<>>)
    IN [tbl |-> r.tbl, raised |-> r.raised,
        df |-> IF r.raised THEN df
               ELSE with_column(df, idcol, col, r.objs, "descr", pk)]

\* df.groupby(codecol)[textcol].min() as a list of (code, text) tuples: one
\* per distinct code that is not missing, in sorted order, with the least
\* text of the group that is not missing (nan when all are)
GroupMin(d, codecol, textcol) ==
    LET codes == safe_sorted(Column(d, codecol))
        texts(c) == {d.rows[i][textcol] : i \in {j \in 1..Len(d.rows) :
                                                  d.rows[j][codecol] = c}}
        least(T) == LET s == safe_sorted(T)
                    IN IF s = <<>> THEN NaNText ELSE Head(s)
    IN [i \in 1..Len(codes) |-> <<codes[i], least(texts(codes[i]))>>]

\* the body shared by create_sources, create_natures and create_close_codes;
\* a CSV without the text column makes the groupby raise KeyError
CodeLookup(tbl, pk, key, codecol, textcol, idcol) ==
    LET tuples == SelectSeq(GroupMin(df, codecol, textcol), LAMBDA x : x[1] # "")
        kwlist == [i \in 1..Len(tuples) |-> (key :> tuples[i][1])]
        deflist == [i \in 1..Len(tuples) |-> [descr |-> tuples[i][2]]]
        r == get_or_create_all(tbl, pk, kwlist, deflist, <<>>)
    IN IF textcol \notin df.columns
       THEN [tbl |-> tbl, raised |-> TRUE, df |-> df]
       ELSE [tbl |-> r.tbl, raised |-> r.raised,
             df |-> IF r.raised THEN df
                    ELSE with_column(df, idcol, codecol, r.objs, key, pk)]

\* (unit, department_id) tuples in sorted() order; the department_id of a
\* tuple is None where the row has no department
RECURSIVE sorted_pairs(_)
sorted_pairs(S) ==
    IF S = {} THEN <<>>
    ELSE LET m == CHOOSE x \in S : \A y \in S :
                    \/ Ord(x[1]) < Ord(y[1])
                    \/ Ord(x[1]) = Ord(y[1]) /\ x[2] <= y[2]
         IN <<m>> \o sorted_pairs(S \ {m})

\* sorted() has to compare an int with None: TypeError under Python 3
Unorderable(S) ==
    \E x, y \in S : x[1] = y[1] /\ x[2] = None /\ y[2] # None

\* create_primary_units; py3 says which interpreter runs the command
PrimaryUnits(py3) ==
    IF "Department ID" \in df.columns
    THEN LET pairs == {<<df.rows[i]["Primary Unit"], df.rows[i]["Department ID"]>> :
                         i \in {j \in 1..Len(df.rows) :
                                  ~isnanText(df.rows[j]["Primary Unit"])}}
             unit_departments == sorted_pairs(pairs)
             kwlist == [i \in 1..Len(unit_departments) |->
                          [descr |-> unit_departments[i][1], agency |-> agency,
                           department_id |-> unit_departments[i][2]]]
             deflist == [i \in 1..Len(unit_departments) |-> NoDefaults]
             r == get_or_create_all(CallUnit, "call_unit_id", kwlist, deflist, <<>>)
         IN IF py3 /\ Unorderable(pairs)
            THEN [tbl |-> CallUnit, raised |-> TRUE, df |-> df]
            ELSE [tbl |-> r.tbl, raised |-> r.raised,
                  df |-> IF r.raised THEN df
                         ELSE with_column(df, "Primary Unit ID", "Primary Unit",
                                          r.objs, "descr", "call_unit_id")]
    ELSE LET unit_names == safe_sorted(Column(df, "Primary Unit"))
             kwlist == [i \in 1..Len(unit_names) |->
                          [descr |-> unit_names[i], agency |-> agency]]
             deflist == [i \in 1..Len(unit_names) |-> [department_id |-> None]]
             r == get_or_create_all(CallUnit, "call_unit_id", kwlist, deflist, <<>>)
         IN [tbl |-> r.tbl, raised |-> r.raised,
             df |-> IF r.raised THEN df
                    ELSE with_column(df, "Primary Unit ID", "Primary Unit",
                                     r.objs, "descr", "call_unit_id")]

ctl == <<options, csv, agency, batch_size, start, run, db0, log>>

\* one turn of `for col, method in creation_methods: if col in self.df:
\* method()`: r is what the method does, to pc = at and the step after it
Creation(at, col, r, next) ==
    /\ pc = at
    /\ IF col \in df.columns
       THEN /\ df' = r.df
            /\ pc' = IF r.raised THEN "raised" ELSE next
       ELSE /\ df' = df
            /\ pc' = next
    /\ UNCHANGED ctl

create_districts ==
    LET r == DescrLookup(District, "district_id", "District", "District ID",
                         [agency |-> agency])
    IN /\ Creation("District", "District", r, "Beat")
       /\ District' = IF "District" \in df.columns THEN r.tbl ELSE District
       /\ UNCHANGED <<Agency, Beat, Priority, Nature, CloseCode, CallSource,
                      City, Department, CallUnit, Call>>

create_beats ==
    LET r == DescrLookup(Beat, "beat_id", "Beat", "Beat ID", NoDefaults)
    IN /\ Creation("Beat", "Beat", r, "Priority")
       /\ Beat' = IF "Beat" \in df.columns THEN r.tbl ELSE Beat
       /\ UNCHANGED <<Agency, District, Priority, Nature, CloseCode, CallSource,
                      City, Department, CallUnit, Call>>

create_priorities ==
    LET r == DescrLookup(Priority, "priority_id", "Priority", "Priority ID",
                         NoDefaults)
    IN /\ Creation("Priority", "Priority", r, "Nature Code")
       /\ Priority' = IF "Priority" \in df.columns THEN r.tbl ELSE Priority
       /\ UNCHANGED <<Agency, District, Beat, Nature, CloseCode, CallSource,
                      City, Department, CallUnit, Call>>

create_natures ==
    LET r == CodeLookup(Nature, "nature_id", "key", "Nature Code", "Nature Text",
                        "Nature ID")
    IN /\ Creation("Nature Code", "Nature Code", r, "Close Code")
       /\ Nature' = IF "Nature Code" \in df.columns THEN r.tbl ELSE Nature
       /\ UNCHANGED <<Agency, District, Beat, Priority, CloseCode, CallSource,
                      City, Department, CallUnit, Call>>

create_close_codes ==
    LET r == CodeLookup(CloseCode, "close_code_id", "code", "Close Code",
                        "Close Text", "Close Code ID")
    IN /\ Creation("Close Code", "Close Code", r, "Source Code")
       /\ CloseCode' = IF "Close Code" \in df.columns THEN r.tbl ELSE CloseCode
       /\ UNCHANGED <<Agency, District, Beat, Priority, Nature, CallSource,
                      City, Department, CallUnit, Call>>

create_sources ==
    LET r == CodeLookup(CallSource, "call_source_id", "code", "Source Code",
                        "Source Text", "Source ID")
    IN /\ Creation("Source Code", "Source Code", r, "City")
       /\ CallSource' = IF "Source Code" \in df.columns THEN r.tbl ELSE CallSource
       /\ UNCHANGED <<Agency, District, Beat, Priority, Nature, CloseCode,
                      City, Department, CallUnit, Call>>

create_cities ==
    LET r == DescrLookup(City, "city_id", "City", "City ID", NoDefaults)
    IN /\ Creation("City", "City", r, "Department")
       /\ City' = IF "City" \in df.columns THEN r.tbl ELSE City
       /\ UNCHANGED <<Agency, District, Beat, Priority, Nature, CloseCode,
                      CallSource, Department, CallUnit, Call>>

create_departments ==
    LET r == DescrLookup(Department, "department_id", "Department",
                         "Department ID", NoDefaults)
    IN /\ Creation("Department", "Department", r, "Primary Unit")
       /\ Department' = IF "Department" \in df.columns THEN r.tbl ELSE Department
       /\ UNCHANGED <<Agency, District, Beat, Priority, Nature, CloseCode,
                      CallSource, City, CallUnit, Call>>

create_primary_units ==
    \E py3 \in BOOLEAN :
        LET r == PrimaryUnits(py3)
        IN /\ Creation("Primary Unit", "Primary Unit", r, "create_calls")
           /\ CallUnit' = IF "Primary Unit" \in df.columns THEN r.tbl ELSE CallUnit
           /\ UNCHANGED <<Agency, District, Beat, Priority, Nature, CloseCode,
                          CallSource, City, Department, Call>>

-----------------------------------------------------------------------------
(* The Call table: create_calls *)

\* safe_get = lambda col: c[col] if col in c else None
safe_get(c, col) == IF col \in df.columns THEN c[col] ELSE None
safe_get_text(c, col) == IF col \in df.columns THEN c[col] ELSE NoneText
safe_get_zip(c, col) == IF col \in df.columns THEN c[col] ELSE NaNZip

\* the keyword arguments of self.update_call(call, ...) for row c
UpdateKwargs(c) ==
    [agency |-> agency,
     time_received |-> safe_datetime(c["Time Received"]),
     first_unit_dispatch |-> safe_datetime(c["Time Dispatched"]),
     first_unit_arrive |-> safe_datetime(c["Time Arrived"]),
     time_closed |-> safe_datetime(c["Time Closed"]),
     street_address |-> safe_get_text(c, "Street Address"),
     zip_code |-> safe_zip(safe_get_zip(c, "Zip")),
     nature_id |-> safe_int(safe_get(c, "Nature ID")),
     city_id |-> safe_int(safe_get(c, "City ID")),
     priority_id |-> safe_int(safe_get(c, "Priority ID")),
     district_id |-> safe_int(safe_get(c, "District ID")),
     beat_id |-> safe_int(safe_get(c, "Beat ID")),
     call_source_id |-> safe_int(safe_get(c, "Source ID")),
     close_code_id |-> safe_int(safe_get(c, "Close Code ID")),
     geox |-> safe_float(c["Longitude"]),
     geoy |-> safe_float(c["Latitude"])]

\* Call(call_id=c['Internal ID'], ...) for row c
NewCall(c) ==
    [call_id |-> c["Internal ID"],
     agency |-> agency,
     time_received |-> safe_datetime(c["Time Received"]),
     first_unit_dispatch |-> safe_datetime(c["Time Dispatched"]),
     first_unit_arrive |-> safe_datetime(c["Time Arrived"]),
     time_closed |-> safe_datetime(c["Time Closed"]),
     street_address |-> safe_get_text(c, "Street Address"),
     zip_code |-> safe_zip(safe_get_zip(c, "Zip")),
     nature_id |-> safe_int(safe_get(c, "Nature ID")),
     city_id |-> safe_int(safe_get(c, "City ID")),
     priority_id |-> safe_int(safe_get(c, "Priority ID")),
     district_id |-> safe_int(safe_get(c, "District ID")),
     beat_id |-> safe_int(safe_get(c, "Beat ID")),
     call_source_id |-> safe_int(safe_get(c, "Source ID")),
     close_code_id |-> safe_int(safe_get(c, "Close Code ID")),
     department_id |-> safe_int(safe_get(c, "Department ID")),
     primary_unit_id |-> safe_int(safe_get(c, "Primary Unit ID")),
     geox |-> safe_float(c["Longitude"]),
     geoy |-> safe_float(c["Latitude"])]

\* for attr, value in kwargs.items(): setattr(call, attr, value)
update_call(call, kwargs) ==
    [f \in DOMAIN call |-> IF f \in DOMAIN kwargs THEN kwargs[f] ELSE call[f]]

\* a constraint of the Call table other than its primary key, which makes
\* save() and bulk_create() raise IntegrityError: a call needs the time it
\* was received
ViolatesConstraint(call) == call.time_received = None

\* Call.objects.bulk_create(calls): one transaction, so either every call is
\* inserted or IntegrityError is raised and none is
bulk_create(tbl, calls) ==
    LET ids == {calls[i].call_id : i \in 1..Len(calls)}
        bad == \/ Cardinality(ids) < Len(calls)
               \/ ids \cap {k.call_id : k \in tbl} # {}
               \/ \E i \in 1..Len(calls) : ViolatesConstraint(calls[i])
    IN IF bad THEN [tbl |-> tbl, raised |-> TRUE]
       ELSE [tbl |-> tbl \cup {calls[i] : i \in 1..Len(calls)}, raised |-> FALSE]

\* uniq_list_by_key(alist, lambda call: call.call_id)
RECURSIVE uniq_from(_, _)
uniq_from(alist, seen) ==
    IF alist = <<>> THEN <<>>
    ELSE IF Head(alist).call_id \in seen THEN uniq_from(Tail(alist), seen)
         ELSE <<Head(alist)>> \o uniq_from(Tail(alist), seen \cup {Head(alist).call_id})
\* a deduplication that drops every call whose call_id occurs twice
uniq_drops_repeated(alist) ==
    SelectSeq(alist, LAMBDA c :
        Cardinality({i \in 1..Len(alist) : alist[i].call_id = c.call_id}) = 1)
\* a deduplication that keeps the last call of each call_id
RECURSIVE uniq_keeps_last(_)
uniq_keeps_last(alist) ==
    IF alist = <<>> THEN <<>>
    ELSE IF \E i \in 2..Len(alist) : alist[i].call_id = Head(alist).call_id
         THEN uniq_keeps_last(Tail(alist))
         ELSE <<Head(alist)>> \o uniq_keeps_last(Tail(alist))
uniq_list_by_key(alist) == uniq_from(alist, {})

\* a loop body that updates a stored call whether or not update is set
loop_body_always_updates(c, tbl, calls, update) ==
    LET stored == {k \in tbl : k.call_id = c["Internal ID"]}
        call == CHOOSE k \in stored : TRUE
        saved == update_call(call, UpdateKwargs(c))
    IN IF stored # {}
       THEN IF ViolatesConstraint(saved)
            THEN [tbl |-> tbl, calls |-> calls, raised |-> TRUE]
            ELSE [tbl |-> (tbl \ {call}) \cup {saved}, calls |-> calls,
                  raised |-> FALSE]
       ELSE [tbl |-> tbl, calls |-> Append(calls, NewCall(c)), raised |-> FALSE]

\* the body of `for idx, c in batch.iterrows()` for row c: a stored call is
\* updated and saved (when update is set) or skipped, any other row becomes
\* a Call appended to calls
loop_body(c, tbl, calls, update) ==
    LET stored == {k \in tbl : k.call_id = c["Internal ID"]}
        call == CHOOSE k \in stored : TRUE
        saved == update_call(call, UpdateKwargs(c))
    IN IF stored # {}
       THEN IF update
            THEN IF ViolatesConstraint(saved)
                 THEN [tbl |-> tbl, calls |-> calls, raised |-> TRUE]
                 ELSE [tbl |-> (tbl \ {call}) \cup {saved}, calls |-> calls,
                       raised |-> FALSE]
            ELSE [tbl |-> tbl, calls |-> calls, raised |-> FALSE]
       ELSE [tbl |-> tbl, calls |-> Append(calls, NewCall(c)), raised |-> FALSE]

\* for idx, c in batch.iterrows(): a save() that raises ends the loop with
\* the earlier saves kept
RECURSIVE iterrows(_, _, _, _)
iterrows(batch, tbl, calls, update) ==
    IF batch = <<>> THEN [tbl |-> tbl, calls |-> calls, raised |-> FALSE]
    ELSE LET r == loop_body(Head(batch), tbl, calls, update)
         IN IF r.raised THEN r
            ELSE iterrows(Tail(batch), r.tbl, r.calls, update)

\* self.df[start:start + self.batch_size]
Slice(rows, lo, size) ==
    SubSeq(rows, lo + 1, IF lo + size < Len(rows) THEN lo + size ELSE Len(rows))

\* one turn of the while loop of create_calls on the table tbl: the rows of
\* the batch, the first bulk_create and, when it raises IntegrityError, the
\* second one on the deduplicated list.  The entry is what the turn did: the
\* slice, the calls it built, how many times bulk_create was called, the
\* list of the second call and whether the turn raised
Batch(tbl, lo, size, update) ==
    LET batch == Slice(df.rows, lo, size)
        r == iterrows(batch, tbl, <<>>, update)
        first == bulk_create(r.tbl, r.calls)
        calls2 == uniq_list_by_key(r.calls)
        second == bulk_create(r.tbl, calls2)
        entry == [lo |-> lo, hi |-> lo + Len(batch), calls |-> r.calls]
    IN IF r.raised
       THEN [tbl |-> r.tbl, raised |-> TRUE,
             entry |-> entry @@ [inserts |-> 0, retried |-> <<>>, raised |-> TRUE]]
       ELSE IF ~first.raised
       THEN [tbl |-> first.tbl, raised |-> FALSE,
             entry |-> entry @@ [inserts |-> 1, retried |-> <<>>, raised |-> FALSE]]
       ELSE [tbl |-> second.tbl, raised |-> second.raised,
             entry |-> entry @@ [inserts |-> 2, retried |-> calls2,
                                 raised |-> second.raised]]

\* the whole while loop of create_calls from offset lo on the table tbl
RECURSIVE create_calls(_, _, _, _)
create_calls(tbl, lo, size, update) ==
    IF lo < Len(df.rows)
    THEN LET b == Batch(tbl, lo, size, update)
         IN IF b.raised THEN [tbl |-> b.tbl, raised |-> TRUE]
            ELSE create_calls(b.tbl, lo + size, size, update)
    ELSE [tbl |-> tbl, raised |-> FALSE]

\* a loop whose except branch forgets `start += self.batch_size`
create_calls_batch_retry_stays ==
    /\ pc = "create_calls"
    /\ start < Len(df.rows)
    /\ LET b == Batch(Call, start, batch_size, options.update)
       IN /\ Call' = b.tbl
          /\ log' = Append(log, b.entry)
          /\ IF b.raised
             THEN pc' = "raised" /\ start' = start
             ELSE pc' = pc /\ start' = IF b.entry.inserts = 2 THEN start
                                       ELSE start + batch_size
    /\ UNCHANGED <<options, csv, df, agency, batch_size, run, db0, Agency,
                   District, Beat, Priority, Nature, CloseCode, CallSource, City,
                   Department, CallUnit>>

create_calls_batch ==
    /\ pc = "create_calls"
    /\ start < Len(df.rows)
    /\ LET b == Batch(Call, start, batch_size, options.update)
       IN /\ Call' = b.tbl
          /\ log' = Append(log, b.entry)
          /\ IF b.raised
             THEN pc' = "raised" /\ start' = start
             ELSE pc' = pc /\ start' = start + batch_size
    /\ UNCHANGED <<options, csv, df, agency, batch_size, run, db0, Agency,
                   District, Beat, Priority, Nature, CloseCode, CallSource, City,
                   Department, CallUnit>>

\* the while test fails: create_calls, and with it handle(), returns
create_calls_return ==
    /\ pc = "create_calls"
    /\ ~(start < Len(df.rows))
    /\ pc' = "done"
    /\ UNCHANGED <<options, csv, df, agency, batch_size, start, run, db0, log,
                   tables>>

-----------------------------------------------------------------------------
(* handle() up to the creation methods *)

\* if options['reset']: self.clear_database(); flush empties every table
handle_reset ==
    /\ pc = "reset"
    /\ IF options.reset
       THEN /\ Agency' = {} /\ District' = {} /\ Beat' = {} /\ Priority' = {}
            /\ Nature' = {} /\ CloseCode' = {} /\ CallSource' = {} /\ City' = {}
            /\ Department' = {} /\ CallUnit' = {} /\ Call' = {}
       ELSE UNCHANGED tables
    /\ pc' = "agency"
    /\ UNCHANGED <<ctl, df>>

\* Agency.objects.get(code=...) raises DoesNotExist when no agency has the
\* code; Agency.objects.first() is None on an empty table and the log line
\* then raises AttributeError on self.agency.code
handle_agency ==
    /\ pc = "agency"
    /\ LET found == IF options.agency # ""
                    THEN {a \in Agency : a.code = options.agency}
                    ELSE {a \in Agency : \A b \in Agency : a.agency_id <= b.agency_id}
       IN IF Cardinality(found) = 1
          THEN /\ agency' = (CHOOSE a \in found : TRUE).agency_id
               /\ pc' = "read_csv"
          ELSE /\ agency' = agency
               /\ pc' = "raised"
    /\ UNCHANGED <<options, csv, df, batch_size, start, run, db0, log, tables>>

\* self.df = pd.read_csv(options['filename'], ...)
read_csv ==
    /\ pc = "read_csv"
    /\ df' = csv
    /\ pc' = "District"
    /\ UNCHANGED <<options, csv, agency, batch_size, start, run, db0, log, tables>>

Snapshot ==
    [Agency |-> Agency, District |-> District, Beat |-> Beat,
     Priority |-> Priority, Nature |-> Nature, CloseCode |-> CloseCode,
     CallSource |-> CallSource, City |-> City, Department |-> Department,
     CallUnit |-> CallUnit, Call |-> Call]

NoFrame == [columns |-> {}, rows |-> <<>>]

\* the command is run a second time, with the same arguments on the same file
Rerun ==
    /\ pc = "done"
    /\ run = 1
    /\ run' = 2
    /\ pc' = "reset"
    /\ db0' = Snapshot
    /\ df' = NoFrame
    /\ agency' = None
    /\ start' = 0
    /\ log' = <<>>
    /\ UNCHANGED <<options, csv, batch_size, tables>>

-----------------------------------------------------------------------------
(* Initial states: a command line, a CSV file and a database *)

RequiredColumns == {"Internal ID", "Time Received", "Time Dispatched",
                    "Time Arrived", "Time Closed", "Latitude", "Longitude"}
IDColumns == {"District ID", "Beat ID", "Priority ID", "Nature ID",
              "Close Code ID", "Source ID", "City ID", "Department ID",
              "Primary Unit ID"}
AllColumns == RequiredColumns \cup OptionalColumns \cup LookupColumns
TextOrNaN == NameSet \cup {NaNText}

\* the other name of the two, so that two columns of a row differ
Flip(x) == IF x = NaNText THEN x ELSE Names[Len(Names) + 1 - Ord(x)]

\* a row of the file: Internal ID id; times, address, zip and coordinates
\* made from t (t = 0: the row has none of them); x in the lookup columns,
\* txt in the text columns, department d and primary unit u
Row(id, t, x, txt, d, u) ==
    [col \in {"Internal ID"} |-> id] @@
    [col \in {"Time Received", "Time Closed"} |-> IF t = 0 THEN NaN ELSE t] @@
    [col \in {"Time Dispatched"} |-> IF t = 0 THEN NaN ELSE t + 10] @@
    [col \in {"Time Arrived"} |-> NaN] @@
    [col \in {"Latitude"} |-> IF t = 0 THEN NaN ELSE t + 30] @@
    [col \in {"Longitude"} |-> IF t = 0 THEN NaN ELSE t + 70] @@
    [col \in {"Zip"} |-> IF t = 0 THEN NaNZip ELSE <<0, t, t, t, t, t, t, 0>>] @@
    [col \in {"Street Address"} |-> IF t = 0 THEN NaNText ELSE "A"] @@
    [col \in {"Beat", "Priority", "Nature Code", "Source Code"} |-> x] @@
    [col \in {"District", "City", "Close Code"} |-> Flip(x)] @@
    [col \in {"Nature Text", "Close Text", "Source Text"} |-> txt] @@
    [col \in {"Department"} |-> d] @@
    [col \in {"Primary Unit"} |-> u] @@
    [col \in IDColumns |-> None]

Agency1 == [agency_id |-> 1, code |-> "A"]
Agency2 == [agency_id |-> 2, code |-> "B"]

EmptyDB ==
    [Agency |-> {Agency1, Agency2}, District |-> {}, Beat |-> {}, Priority |-> {},
     Nature |-> {}, CloseCode |-> {}, CallSource |-> {}, City |-> {},
     Department |-> {}, CallUnit |-> {}, Call |-> {}]

\* the database a load of one row with "A" in every column leaves
LoadedDB ==
    [Agency |-> {Agency1, Agency2},
     District |-> {[district_id |-> 1, agency |-> 1, descr |-> "A"]},
     Beat |-> {[beat_id |-> 1, descr |-> "A"]},
     Priority |-> {[priority_id |-> 1, descr |-> "A"]},
     Nature |-> {[nature_id |-> 1, key |-> "A", descr |-> "A"]},
     CloseCode |-> {[close_code_id |-> 1, code |-> "A", descr |-> "A"]},
     CallSource |-> {[call_source_id |-> 1, code |-> "A", descr |-> "A"]},
     City |-> {[city_id |-> 1, descr |-> "A"]},
     Department |-> {[department_id |-> 1, descr |-> "A"]},
     CallUnit |-> {[call_unit_id |-> 1, descr |-> "A", agency |-> 1,
                    department_id |-> 1]},
     Call |-> {}]

\* the database a load of unit "A" under two departments leaves
TwoUnitsDB ==
    [LoadedDB EXCEPT
       !.Department = {[department_id |-> 1, descr |-> "A"],
                       [department_id |-> 2, descr |-> "B"]},
       !.CallUnit = {[call_unit_id |-> 1, descr |-> "A", agency |-> 1,
                      department_id |-> 1],
                     [call_unit_id |-> 2, descr |-> "A", agency |-> 1,
                      department_id |-> 2]}]

\* a call an earlier load stored under LoadedDB
StoredCall(id) ==
    [call_id |-> id, agency |-> 1, time_received |-> 9,
     first_unit_dispatch |-> 19, first_unit_arrive |-> None, time_closed |-> 9,
     street_address |-> "B", zip_code |-> <<9, 9, 9, 9, 9>>, nature_id |-> 1,
     city_id |-> 1, priority_id |-> 1, district_id |-> 1, beat_id |-> 1,
     call_source_id |-> 1, close_code_id |-> 1, department_id |-> 1,
     primary_unit_id |-> 1, geox |-> 79, geoy |-> 39]

InitWith(file, opts, size, db) ==
    /\ pc = "reset"
    /\ options = opts
    /\ csv = file
    /\ df = NoFrame
    /\ agency = None
    /\ batch_size = size
    /\ start = 0
    /\ Agency = db.Agency /\ District = db.District /\ Beat = db.Beat
    /\ Priority = db.Priority /\ Nature = db.Nature /\ CloseCode = db.CloseCode
    /\ CallSource = db.CallSource /\ City = db.City
    /\ Department = db.Department /\ CallUnit = db.CallUnit /\ Call = db.Call
    /\ run = 1
    /\ db0 = db
    /\ log = <<>>

\* files whose Internal IDs repeat and whose values differ from row to row,
\* at most one row being one the Call table rejects, loaded over stored calls
InitCalls ==
    \E n \in 0..MaxRows, stored \in 0..MaxId, update \in BOOLEAN,
       size \in 1..MaxBatch :
      \E ids \in [1..n -> 1..MaxId], bad \in 0..n :
        InitWith([columns |-> AllColumns,
                  rows |-> [i \in 1..n |->
                              Row(ids[i], IF i = bad THEN 0 ELSE i,
                                  "A", "A", "B", "B")]],
                 [reset |-> FALSE, agency |-> "", update |-> update],
                 size,
                 [LoadedDB EXCEPT !.Call = {StoredCall(id) : id \in 1..stored}])

\* the command lines: --reset, --agency, over the agencies there are
InitOptions ==
    \E reset \in BOOLEAN, update \in BOOLEAN, code \in {"", "A", "B"},
       agencies \in {{}, {Agency1}, {Agency1, Agency2}} :
        InitWith([columns |-> AllColumns,
                  rows |-> <<Row(1, 1, "A", "A", "B", "B"),
                             Row(2, 2, "B", "B", "A", "A")>>],
                 [reset |-> reset, agency |-> code, update |-> update],
                 1,
                 [LoadedDB EXCEPT !.Call = {StoredCall(1)}, !.Agency = agencies])

\* files whose lookup columns vary, with and without the columns
InitLookups ==
    \E n \in 0..MaxLookupRows, db \in {EmptyDB, LoadedDB},
       columns \in {AllColumns, RequiredColumns, AllColumns \ {"Nature Text"}} :
      \E x \in [1..n -> TextOrNaN], txt \in [1..n -> TextOrNaN] :
        InitWith([columns |-> columns,
                  rows |-> [i \in 1..n |->
                              Row(i, i, x[i], txt[i], NaNText, NaNText)]],
                 [reset |-> FALSE, agency |-> "", update |-> FALSE],
                 MaxBatch, db)

\* files whose departments and primary units vary
InitUnits ==
    \E n \in 0..MaxLookupRows, db \in {EmptyDB, LoadedDB, TwoUnitsDB},
       columns \in {AllColumns, AllColumns \ {"Department"}} :
      \E d \in [1..n -> TextOrNaN], u \in [1..n -> TextOrNaN] :
        InitWith([columns |-> columns,
                  rows |-> [i \in 1..n |-> Row(i, i, "A", "A", d[i], u[i])]],
                 [reset |-> FALSE, agency |-> "", update |-> FALSE],
                 MaxBatch, db)

Init == InitCalls \/ InitOptions \/ InitLookups \/ InitUnits

Next ==
    \/ handle_reset
    \/ handle_agency
    \/ read_csv
    \/ create_districts
    \/ create_beats
    \/ create_priorities
    \/ create_natures
    \/ create_close_codes
    \/ create_sources
    \/ create_cities
    \/ create_departments
    \/ create_primary_units
    \/ create_calls_batch
    \/ create_calls_return
    \/ Rerun

Spec == Init /\ [][Next]_vars

-----------------------------------------------------------------------------
(* Properties *)

Rows == 1..Len(csv.rows)
IdOf(i) == csv.rows[i]["Internal ID"]
CallsWithId(id) == {k \in Call : k.call_id = id}
CallOf(i) == CHOOSE k \in Call : k.call_id = IdOf(i)
StoredBefore(i) == \E k \in db0.Call : k.call_id = IdOf(i)
Finished == pc = "done"
\* the number of the batch that row i falls in
BatchOf(i) == (i - 1) \div batch_size
\* the calls of a list whose call_id no earlier call of the list has
KeepFirst(calls) ==
    LET idx == {i \in 1..Len(calls) :
                  \A j \in 1..(i - 1) : calls[j].call_id # calls[i].call_id}
        nth(k) == CHOOSE i \in idx : Cardinality({j \in idx : j <= i}) = k
    IN [k \in 1..Cardinality(idx) |-> calls[nth(k)]]

\* C1: when handle() has returned, the Call table holds exactly one call for
\* every Internal ID of the CSV
C1_OneCallPerId ==
    Finished => \A i \in Rows : Cardinality(CallsWithId(IdOf(i))) = 1

\* a finished run in which a batch held one ID twice and was inserted again
\* after deduplication, and in which one ID came in two different batches
C1_Witness ==
    /\ Finished
    /\ \E e \in 1..Len(log) : /\ log[e].inserts = 2
                              /\ Len(log[e].retried) < Len(log[e].calls)
    /\ \E i, j \in Rows : IdOf(i) = IdOf(j) /\ BatchOf(i) # BatchOf(j)

\* C2: with --update, a call stored before the run whose Internal ID is in
\* (one row of) the CSV ends the run equal to the call that would be created
\* from that row
C2_UpdatedEqualsCreated ==
    (Finished /\ run = 1 /\ options.update) =>
        \A i \in Rows :
            (StoredBefore(i) /\ \A j \in Rows : IdOf(j) = IdOf(i) => j = i)
                => CallOf(i) = NewCall(df.rows[i])

\* C3: without --update and --reset every call stored before the run is in
\* the table unchanged, and is the only call with its ID
C3_StoredUnchanged ==
    (~options.update /\ ~options.reset) =>
        \A k \in db0.Call : CallsWithId(k.call_id) = {k}

\* a finished run without --update whose CSV had a row with the ID of a
\* stored call
C3_Witness ==
    /\ Finished /\ run = 1 /\ ~options.update /\ ~options.reset
    /\ \E i \in Rows : StoredBefore(i) /\ NewCall(df.rows[i]) \notin Call

\* C4: with --reset, and an agency to load for in the database, the run does
\* not raise, and ends with calls for the Internal IDs of the CSV only
C4_ResetThenLoad ==
    (/\ options.reset
     /\ run = 1
     /\ IF options.agency = "" THEN db0.Agency # {}
        ELSE \E a \in db0.Agency : a.code = options.agency)
    => /\ pc # "raised"
       /\ Finished => {k.call_id : k \in Call} = {IdOf(i) : i \in Rows}

UniqueKey(tbl, fields) ==
    \A r, q \in tbl : (\A f \in fields : r[f] = q[f]) => r = q

UniqueKeys ==
    /\ UniqueKey(District, {"agency", "descr"})
    /\ UniqueKey(Beat, {"descr"})
    /\ UniqueKey(Priority, {"descr"})
    /\ UniqueKey(Nature, {"key"})
    /\ UniqueKey(CloseCode, {"code"})
    /\ UniqueKey(CallSource, {"code"})
    /\ UniqueKey(City, {"descr"})
    /\ UniqueKey(Department, {"descr"})
    /\ UniqueKey(CallUnit, {"descr", "agency", "department_id"})

\* C5: a second run on the same CSV, without --reset and --update, changes
\* no table, and no lookup table ever holds two rows with the same key
C5_Idempotent ==
    /\ (run = 2 /\ ~options.reset /\ ~options.update) => Snapshot = db0
    /\ UniqueKeys

\* a second run that finished after a first one that created a beat, a unit
\* and a call
C5_Witness ==
    /\ Finished /\ run = 2 /\ ~options.reset /\ ~options.update
    /\ Cardinality(Beat) >= 2 /\ Cardinality(CallUnit) >= 2 /\ Call # {}

\* the lookup columns: the table, the table before the run, the field that
\* holds the key, the primary key and the foreign key of Call
Lookups ==
    << [col |-> "District", tbl |-> District, tbl0 |-> db0.District,
        key |-> "descr", pk |-> "district_id", fk |-> "district_id"],
       [col |-> "Beat", tbl |-> Beat, tbl0 |-> db0.Beat,
        key |-> "descr", pk |-> "beat_id", fk |-> "beat_id"],
       [col |-> "Priority", tbl |-> Priority, tbl0 |-> db0.Priority,
        key |-> "descr", pk |-> "priority_id", fk |-> "priority_id"],
       [col |-> "Nature Code", tbl |-> Nature, tbl0 |-> db0.Nature,
        key |-> "key", pk |-> "nature_id", fk |-> "nature_id"],
       [col |-> "Close Code", tbl |-> CloseCode, tbl0 |-> db0.CloseCode,
        key |-> "code", pk |-> "close_code_id", fk |-> "close_code_id"],
       [col |-> "Source Code", tbl |-> CallSource, tbl0 |-> db0.CallSource,
        key |-> "code", pk |-> "call_source_id", fk |-> "call_source_id"],
       [col |-> "City", tbl |-> City, tbl0 |-> db0.City,
        key |-> "descr", pk |-> "city_id", fk |-> "city_id"],
       [col |-> "Department", tbl |-> Department, tbl0 |-> db0.Department,
        key |-> "descr", pk |-> "department_id", fk |-> "department_id"],
       [col |-> "Primary Unit", tbl |-> CallUnit, tbl0 |-> db0.CallUnit,
        key |-> "descr", pk |-> "call_unit_id", fk |-> "primary_unit_id"] >>

\* row i is the row its call was created from and no later row updated it
CreatedFrom(i) ==
    /\ ~StoredBefore(i)
    /\ \A j \in Rows : (j < i => IdOf(j) # IdOf(i))
    /\ options.update => \A j \in Rows : (j > i => IdOf(j) # IdOf(i))

\* C6: the foreign key of a created call is the ID of a lookup row whose key
\* is the text of the CSV row, null exactly when the text is missing; a
\* lookup column the CSV lacks leaves its table alone and the key null
C6_ForeignKeys ==
    (Finished /\ run = 1) =>
        \A i \in Rows : CreatedFrom(i) =>
            \A n \in 1..Len(Lookups) :
                LET L == Lookups[n]
                    x == csv.rows[i][L.col]
                    id == CallOf(i)[L.fk]
                IN IF L.col \in csv.columns
                   THEN /\ (x = NaNText) <=> (id = None)
                        /\ x # NaNText =>
                             \E r \in L.tbl : r[L.pk] = id /\ r[L.key] = x
                   ELSE id = None /\ L.tbl = L.tbl0

\* a finished run that created a call whose beat and district have
\* different IDs and a call that has no beat
C6_Witness ==
    /\ Finished /\ run = 1 /\ "Beat" \in csv.columns
    /\ \E i, j \in Rows :
         /\ CreatedFrom(i) /\ CreatedFrom(j)
         /\ CallOf(i).beat_id # None
         /\ CallOf(i).beat_id # CallOf(i).district_id
         /\ CallOf(j).beat_id = None

\* C7: with a Department column, every row that names a primary unit (and
\* has a department) gets the ID of the CallUnit with that name in the row's
\* own department
C7_UnitOfOwnDepartment ==
    (pc = "create_calls" /\ "Department" \in csv.columns
       /\ "Primary Unit" \in csv.columns) =>
        \A i \in 1..Len(df.rows) :
            LET c == df.rows[i]
            IN (c["Primary Unit"] # NaNText /\ c["Department"] # NaNText) =>
                 \E u \in CallUnit :
                     /\ u.call_unit_id = c["Primary Unit ID"]
                     /\ u.descr = c["Primary Unit"]
                     /\ u.department_id = c["Department ID"]

HasDuplicates(calls) ==
    \E i, j \in 1..Len(calls) : i < j /\ calls[i].call_id = calls[j].call_id

\* C8: a batch that reaches its bulk insert is inserted once, or twice when
\* the first insert raised (an ID twice in the batch, or a call the table
\* rejects); the second insert is of the batch's calls with the first of
\* each call_id kept; when it raises the run has stopped on that batch, and
\* no batch is taken up twice
C8_SingleRetry ==
    \A e \in 1..Len(log) :
        /\ log[e].inserts <= 2
        /\ log[e].inserts # 0 =>
             (log[e].inserts = 2 <=>
                (\/ HasDuplicates(log[e].calls)
                 \/ \E i \in 1..Len(log[e].calls) :
                       ViolatesConstraint(log[e].calls[i])))
        /\ log[e].inserts = 2 => log[e].retried = KeepFirst(log[e].calls)
        /\ (log[e].inserts = 2 /\ ~log[e].raised) =>
             \A i \in 1..Len(log[e].retried) :
                 CallsWithId(log[e].retried[i].call_id) # {}
        /\ log[e].raised => (e = Len(log) /\ pc = "raised")
        /\ \A f \in 1..Len(log) : e < f => log[e].lo < log[f].lo

\* a run stopped by the second insert of a batch that held one ID twice,
\* with rows after the batch left unprocessed
C8_Witness ==
    /\ pc = "raised" /\ log # <<>>
    /\ log[Len(log)].inserts = 2
    /\ Len(log[Len(log)].retried) < Len(log[Len(log)].calls)
    /\ log[Len(log)].hi < Len(df.rows)

Ceil(n, d) == (n + d - 1) \div d

Partition ==
    /\ \A e \in 1..Len(log) :
         /\ log[e].lo = (e - 1) * batch_size
         /\ log[e].hi = IF e * batch_size < Len(df.rows) THEN e * batch_size
                        ELSE Len(df.rows)
         /\ log[e].lo < log[e].hi
    /\ Len(log) <= Ceil(Len(df.rows), batch_size)
    /\ Finished => Len(log) = Ceil(Len(df.rows), batch_size)

\* the rows that are left when the loop is at its test
Remaining == IF start < Len(df.rows) THEN Len(df.rows) - start ELSE 0

\* C9: the batches are the consecutive slices of batch_size rows, at most
\* ceil(n / batch_size) of them and all of them when the run finishes; every
\* batch that does not raise moves start forward and leaves fewer rows to do
\* (the variant by which the loop ends); an empty CSV has no batch
C9_BatchesPartition ==
    /\ []Partition
    /\ [][(Len(log') > Len(log) /\ pc' # "raised") =>
            (start' > start /\ Remaining' < Remaining)]_vars
    /\ [](pc = "create_calls" /\ Len(df.rows) = 0 => log = <<>>)

\* a finished run of two batches, the last one short, one of them retried
C9_Witness ==
    /\ Finished /\ Len(log) >= 2
    /\ log[Len(log)].hi - log[Len(log)].lo < batch_size
    /\ \E e \in 1..Len(log) : log[e].inserts = 2

\* C10: the Call table of a finished run is the one every other batch size
\* ends with, from the same table and the same dataframe
C10_BatchSizeIndependent ==
    (Finished /\ run = 1) =>
        \A size \in 1..MaxBatch :
            create_calls(db0.Call, 0, size, options.update)
                = [tbl |-> Call, raised |-> FALSE]

====
